---- MODULE Spec2Model ----
(***************************************************************************)
(* Model of verify_color_conversion.py: the script that compares the hue   *)
(* conversion factor 182.0 with 65536/360 and prints two tables.           *)
(*                                                                         *)
(* Python floats are IEEE-754 doubles.  Every float the script computes is *)
(* non-negative, below 2^17 and either zero or at least 128, so each is a  *)
(* multiple of 2^-45.  A float is modelled exactly as a record             *)
(*     [i |-> integer part, f |-> <<f1, f2, f3>>]                          *)
(* whose fraction is f1/2^15 + f2/2^30 + f3/2^45 (three 15-bit limbs, so   *)
(* that every intermediate product stays below 2^31).                      *)
(***************************************************************************)
EXTENDS Integers, Sequences, FiniteSets, TLC

\* ------------------------------------------------------------------------
\* IEEE-754 double arithmetic, as CPython performs it
\* ------------------------------------------------------------------------

LimbBase == 2^15

\* floor(log2(n)) for n >= 1
RECURSIVE Exponent(_)
Exponent(n) ==
    IF n <= 1 THEN 0 ELSE 1 + Exponent(n \div 2)

\* carry propagation from the low limb up to the integer part
Carry(i, a, b, c) ==
    LET b2 == b + (c \div LimbBase)
        a2 == a + (b2 \div LimbBase)
    IN  [i |-> i + (a2 \div LimbBase),
         f |-> <<a2 % LimbBase, b2 % LimbBase, c % LimbBase>>]

FloatOfInt(n) ==
    [i |-> n, f |-> <<0, 0, 0>>]

IsIntegral(x) ==
    x.f = <<0, 0, 0>>

\* Round-to-nearest, ties-to-even, to a 53-bit significand.  x holds the
\* exact value truncated to 45 fraction bits; tail says how the discarded
\* remainder compares with half a unit of 2^-45.  A value with integer part
\* in [2^e, 2^(e+1)), e >= 7, keeps 52 - e fraction bits, so the low e - 7
\* bits of the last limb are rounded away.
RoundDouble(x, tail) ==
    LET e    == Exponent(x.i)
        k    == IF e > 7 THEN e - 7 ELSE 0
        unit == 2^k
        low  == x.f[3] % unit
        odd  == (x.f[3] \div unit) % 2 = 1
        up   == IF k = 0
                THEN tail = "above" \/ (tail = "half" /\ odd)
                ELSE \/ 2 * low > unit
                     \/ (2 * low = unit /\ tail # "zero")
                     \/ (2 * low = unit /\ tail = "zero" /\ odd)
    IN  Carry(x.i, x.f[1], x.f[2], x.f[3] - low + (IF up THEN unit ELSE 0))

\* FDiv with the quotient cut off after 53 bits instead of rounded
FDivTruncated(a, b) ==
    LET q0 == a \div b
        r0 == a % b
        l1 == (r0 * LimbBase) \div b
        r1 == (r0 * LimbBase) % b
        l2 == (r1 * LimbBase) \div b
        r2 == (r1 * LimbBase) % b
        l3 == (r2 * LimbBase) \div b
    IN  [i |-> q0, f |-> <<l1, l2, l3>>]

\* a / b for Python ints a, b > 0 (true division, correctly rounded)
FDiv(a, b) ==
    LET q0 == a \div b
        r0 == a % b
        l1 == (r0 * LimbBase) \div b
        r1 == (r0 * LimbBase) % b
        l2 == (r1 * LimbBase) \div b
        r2 == (r1 * LimbBase) % b
        l3 == (r2 * LimbBase) \div b
        r3 == (r2 * LimbBase) % b
        tail == IF r3 = 0 THEN "zero"
                ELSE IF 2 * r3 < b THEN "below"
                ELSE IF 2 * r3 = b THEN "half"
                ELSE "above"
    IN  RoundDouble([i |-> q0, f |-> <<l1, l2, l3>>], tail)

\* d * x for a Python int d >= 0 and a float x: the exact product, rounded
FMul(d, x) ==
    RoundDouble(Carry(d * x.i, d * x.f[1], d * x.f[2], d * x.f[3]), "zero")

\* x % m for a float x >= 0 and an int m > 0: fmod, which is exact
FMod(x, m) ==
    [i |-> x.i % m, f |-> x.f]

\* int(x) for a float x >= 0: truncation toward zero
Trunc(x) ==
    x.i

\* ------------------------------------------------------------------------
\* Python values on the evaluation stack (dynamically typed)
\* ------------------------------------------------------------------------

PyInt(n) ==
    [t |-> "int", i |-> n, f |-> <<0, 0, 0>>]

PyFloat(x) ==
    [t |-> "float", i |-> x.i, f |-> x.f]

\* the value as it is kept in a local: a plain integer or a float record
PyValue(v) ==
    IF v.t = "int" THEN v.i ELSE [i |-> v.i, f |-> v.f]

\* int * float -> float
PyMul(v, x) ==
    PyFloat(FMul(v.i, x))

\* v % m keeps the type of v: int % int -> int, float % int -> float
PyMod(v, m) ==
    LET r == FMod(v, m) IN [t |-> v.t, i |-> r.i, f |-> r.f]

\* int(v)
PyTrunc(v) ==
    PyInt(Trunc(v))

\* ------------------------------------------------------------------------
\* String formatting.  A printed line is a sequence of tokens: the literal
\* text of a print statement is one token, a formatted field is a sequence
\* of one-character tokens.
\* ------------------------------------------------------------------------

DecDigits == <<"0", "1", "2", "3", "4", "5", "6", "7", "8", "9">>

HexDigits == <<"0", "1", "2", "3", "4", "5", "6", "7", "8", "9",
               "A", "B", "C", "D", "E", "F">>

RECURSIVE Repeat(_, _)
Repeat(c, n) ==
    IF n <= 0 THEN <<>> ELSE <<c>> \o Repeat(c, n - 1)

\* str(n) for n >= 0
RECURSIVE Dec(_)
Dec(n) ==
    IF n < 10 THEN <<DecDigits[n + 1]>>
    ELSE Dec(n \div 10) \o <<DecDigits[(n % 10) + 1]>>

\* format(n, "X") for n >= 0
RECURSIVE Hex(_)
Hex(n) ==
    IF n < 16 THEN <<HexDigits[n + 1]>>
    ELSE Hex(n \div 16) \o <<HexDigits[(n % 16) + 1]>>

\* "<w": left-aligned, padded with spaces to at least w characters
Ljust(s, w) ==
    s \o Repeat(" ", w - Len(s))

\* ">w": right-aligned
Rjust(s, w) ==
    Repeat(" ", w - Len(s)) \o s

\* HexPad without the zero padding ("X" in place of "04X")
HexNoPad(n, w) ==
    Hex(n)

\* "0wX": upper-case hexadecimal, zero-padded to at least w characters
HexPad(n, w) ==
    Repeat("0", w - Len(Hex(n))) \o Hex(n)

\* SignedDec without the plus sign ("d" in place of "+d")
SignedDecMinusOnly(n) ==
    IF n >= 0 THEN Dec(n) ELSE <<"-">> \o Dec(0 - n)

\* "+d": decimal with an explicit sign
SignedDec(n) ==
    IF n >= 0 THEN <<"+">> \o Dec(n) ELSE <<"-">> \o Dec(0 - n)

\* repr of a float without a fractional part, as an f-string shows it
ReprFloat(x) ==
    Dec(x.i) \o <<".", "0">>

\* the first n decimals of a fraction, and what is left of it (each product
\* by ten is bound as a value before it is used for the digit and the rest)
RECURSIVE FracDigitsFrom(_, _, _)
FracDigitsFrom(f, n, acc) ==
    IF n = 0 THEN [digits |-> acc, rest |-> f]
    ELSE CHOOSE r \in { FracDigitsFrom(m.f, n - 1, Append(acc, m.i)) :
                            m \in {Carry(0, 10 * f[1], 10 * f[2], 10 * f[3])} } :
             TRUE

FracDigits(f, n) ==
    FracDigitsFrom(f, n, <<>>)

\* a digit string plus one: <<carry out, digits>>
RECURSIVE Increment(_)
Increment(ds) ==
    IF ds = <<>> THEN [carry |-> 1, digits |-> <<>>]
    ELSE LET n    == Len(ds)
             last == ds[n]
             head == SubSeq(ds, 1, n - 1)
         IN  IF last < 9
             THEN [carry |-> 0, digits |-> head \o <<last + 1>>]
             ELSE LET h == Increment(head)
                  IN  [carry |-> h.carry, digits |-> h.digits \o <<0>>]

\* ".10f": ten decimals, the exact binary value rounded half-to-even
Fixed10(x) ==
    LET d    == FracDigits(x.f, 10)
        half == LimbBase \div 2
        cmp  == IF d.rest[1] > half THEN 1
                ELSE IF d.rest[1] < half THEN 0 - 1
                ELSE IF d.rest[2] > 0 \/ d.rest[3] > 0 THEN 1 ELSE 0
        up   == cmp = 1 \/ (cmp = 0 /\ d.digits[10] % 2 = 1)
        r    == IF up THEN Increment(d.digits)
                ELSE [carry |-> 0, digits |-> d.digits]
    IN  Dec(x.i + r.carry) \o <<".">>
          \o [k \in 1..10 |-> DecDigits[r.digits[k] + 1]]

\* ------------------------------------------------------------------------
\* The script's literals
\* ------------------------------------------------------------------------

\* runs of the script that are followed (a run takes no input)
MaxRuns == 2

MaxU16 == 65535
U16Range == 65536
FullCircle == 360
\* HueModulus as 0xFFFF
HueModulusFFFF == 65536 - 1

HueModulus == 65536
RuleWidth == 50

\* the line after the last one: main() has returned to the module level
Eof == 68

\* original_factor mistyped as 183.0
original_factor_183 == FloatOfInt(183)

original_factor == FloatOfInt(182)

test_degrees == <<0, 60, 120, 180, 240, 300, 360>>

\* colors iterated in sorted order of the names instead of insertion order
colors_sorted ==
    << [name |-> <<"B", "l", "u", "e">>,           degrees |-> 240],
       [name |-> <<"C", "y", "a", "n">>,           degrees |-> 180],
       [name |-> <<"G", "r", "e", "e", "n">>,      degrees |-> 120],
       [name |-> <<"O", "r", "a", "n", "g", "e">>, degrees |-> 39],
       [name |-> <<"P", "i", "n", "k">>,           degrees |-> 350],
       [name |-> <<"P", "u", "r", "p", "l", "e">>, degrees |-> 275],
       [name |-> <<"R", "e", "d">>,                degrees |-> 0],
       [name |-> <<"Y", "e", "l", "l", "o", "w">>, degrees |-> 60] >>

\* a dict keeps its insertion order
colors ==
    << [name |-> <<"R", "e", "d">>,                degrees |-> 0],
       [name |-> <<"O", "r", "a", "n", "g", "e">>, degrees |-> 39],
       [name |-> <<"Y", "e", "l", "l", "o", "w">>, degrees |-> 60],
       [name |-> <<"G", "r", "e", "e", "n">>,      degrees |-> 120],
       [name |-> <<"C", "y", "a", "n">>,           degrees |-> 180],
       [name |-> <<"B", "l", "u", "e">>,           degrees |-> 240],
       [name |-> <<"P", "u", "r", "p", "l", "e">>, degrees |-> 275],
       [name |-> <<"P", "i", "n", "k">>,           degrees |-> 350] >>

\* ------------------------------------------------------------------------
\* Control flow: pc is the source line of the next statement
\* ------------------------------------------------------------------------

VARIABLES
    pc,       \* source line of the statement to execute next
    status,   \* "running", "exit0" (normal end) or "exit1" (uncaught exception)
    locals,   \* main's frame: the names bound so far and their values
    iter,     \* the iterator of the for loop in progress
    stack,    \* the value of the expression being evaluated (empty if none)
    done,     \* the operations of that expression applied so far
    out,      \* the lines written to standard output by this run
    history   \* output and status of the runs that came before

vars == <<pc, status, locals, iter, stack, done, out, history>>

\* the statements of main in program order
Program ==
    <<9, 10, 13, 16, 17, 19, 20, 21, 22, 25, 27, 28, 29, 30,
      32, 33, 34, 35, 37, 39, 40, 41, 42, 43, 44, 47, 48, 49, 51,
      62, 63, 64>>

\* where control goes after the statement at line l (loop bodies jump back)
Fall(l) ==
    IF l = 37 THEN 32
    ELSE IF l = 64 THEN 62
    ELSE LET k == CHOOSE j \in 1..Len(Program) : Program[j] = l
         IN  Program[k + 1]

PrintLines == {9, 10, 19, 20, 21, 22, 27, 28, 29, 30,
               39, 40, 41, 42, 43, 44, 47, 48, 49}

AssignLines == {13, 16, 17, 25, 51}

ExprLines == {33, 34, 63}

\* the names each statement reads
Reads(l) ==
    CASE l = 19 -> {"original_factor"}
      [] l = 20 -> {"factor_65535"}
      [] l = 21 -> {"factor_65536"}
      [] l = 32 -> {"test_degrees"}
      [] l = 33 -> {"deg", "original_factor"}
      [] l = 34 -> {"deg", "factor_65536"}
      [] l = 35 -> {"correct_value", "old_value"}
      [] l = 37 -> {"deg", "old_value", "correct_value", "diff"}
      [] l = 62 -> {"colors"}
      [] l = 63 -> {"degrees", "factor_65536"}
      [] l = 64 -> {"name", "degrees", "lifx_value"}
      [] OTHER -> {}

NoIter == [items |-> <<>>, pos |-> 0 - 1]

Bind(name, v) ==
    (name :> v) @@ locals

\* a for loop looks its iterable up once, when it starts
Needs ==
    IF pc \in {32, 62} /\ iter # NoIter THEN {} ELSE Reads(pc)

\* NameError / UnboundLocalError, or ZeroDivisionError on lines 16 and 17
Raises ==
    \/ ~(Needs \subseteq DOMAIN locals)
    \/ (pc \in {16, 17} /\ FullCircle = 0)

\* an uncaught exception ends the process with a non-zero status
Raise ==
    /\ status' = "exit1"
    /\ UNCHANGED <<pc, locals, iter, stack, done, out, history>>

Guarded(A) ==
    IF Raises THEN Raise ELSE A

\* ------------------------------------------------------------------------
\* Statements
\* ------------------------------------------------------------------------

\* what the print statement at line l writes
Text(l) ==
    CASE l = 9  -> <<"LIFX Color Conversion Factor Analysis">>
      [] l = 10 -> Repeat("=", RuleWidth)
      [] l = 19 -> <<"Original magic number: ">>
                     \o ReprFloat(locals["original_factor"])
      [] l = 20 -> <<"65535 / 360 = ">> \o Fixed10(locals["factor_65535"])
      [] l = 21 -> <<"65536 / 360 = ">> \o Fixed10(locals["factor_65536"])
      [] l = 22 -> <<>>
      [] l = 27 -> <<"Conversion comparison for various hue values:">>
      [] l = 28 -> Repeat("-", RuleWidth)
      [] l = 29 -> Ljust(<<"D", "e", "g", "r", "e", "e", "s">>, 10) \o <<" ">>
                     \o Ljust(<<"O", "l", "d", " ", "(", "1", "8", "2", ".",
                                "0", ")">>, 15) \o <<" ">>
                     \o Ljust(<<"C", "o", "r", "r", "e", "c", "t", " ", "(",
                                "6", "5", "5", "3", "6", "/", "3", "6", "0",
                                ")">>, 20) \o <<" ">>
                     \o <<"Difference">>
      [] l = 30 -> Repeat("-", RuleWidth)
      [] l = 39 -> <<>>
      [] l = 40 -> <<"Explanation:">>
      [] l = 41 -> <<"- The magic number 182.0 was an approximation of 65535/360 = 182.04166...">>
      [] l = 42 -> <<"- However, LIFX documentation recommends using 65536/360 = 182.04444...">>
      [] l = 43 -> <<"- This provides better rounding behavior and wrapping at 360 degrees">>
      [] l = 44 -> <<"- The difference is small but can accumulate in color transitions">>
      [] l = 47 -> <<>>
      [] l = 48 -> <<"Named colors in LIFX u16 format:">>
      [] l = 49 -> Repeat("-", RuleWidth)

\* line 37: one row of the comparison table
ComparisonRow(deg, old_value, correct_value, diff) ==
    Ljust(Dec(deg), 10) \o <<" ">>
      \o Ljust(Dec(old_value), 15) \o <<" ">>
      \o Ljust(Dec(correct_value), 20) \o <<" ">>
      \o SignedDec(diff)

\* line 64: one row of the named-color table ("deg" and "->" stand for the
\* degree sign and the arrow of the source)
ColorRow(name, degrees, lifx_value) ==
    Ljust(name, 10) \o <<" ">>
      \o Rjust(Dec(degrees), 3) \o <<"deg", " ", "->", " ">>
      \o Rjust(Dec(lifx_value), 5) \o <<" ", "(", "0", "x">>
      \o HexPad(lifx_value, 4) \o <<")">>

\* AssignedName with line 17 binding factor_65535 a second time
AssignedNameTypo(l) ==
    CASE l = 13 -> "original_factor"
      [] l = 16 -> "factor_65535"
      [] l = 17 -> "factor_65535"
      [] l = 25 -> "test_degrees"
      [] l = 51 -> "colors"

\* the name the assignment at line l binds
AssignedName(l) ==
    CASE l = 13 -> "original_factor"
      [] l = 16 -> "factor_65535"
      [] l = 17 -> "factor_65536"
      [] l = 25 -> "test_degrees"
      [] l = 51 -> "colors"

\* AssignedValue with the magic number taken from something that differs
\* from one run to the next (here: how many runs came before)
AssignedValueRunDependent(l) ==
    CASE l = 13 -> FloatOfInt(182 + Len(history))
      [] l = 16 -> FDiv(MaxU16, FullCircle)
      [] l = 17 -> FDiv(U16Range, FullCircle)
      [] l = 25 -> test_degrees
      [] l = 51 -> colors

\* the value the assignment at line l binds
AssignedValue(l) ==
    CASE l = 13 -> original_factor
      [] l = 16 -> FDiv(MaxU16, FullCircle)
      [] l = 17 -> FDiv(U16Range, FullCircle)
      [] l = 25 -> test_degrees
      [] l = 51 -> colors

\* the expression of line 34 without the modulo
expr_without_modulo == <<"load", "mul", "int">>

\* the expression of line 34 truncating before the modulo
expr_truncate_first == <<"load", "mul", "int", "mod">>

\* the operations of each converted expression, in evaluation order
old_value_expr == <<"load", "mul", "int">>

correct_value_expr == <<"load", "mul", "mod", "int">>

lifx_value_expr == <<"load", "mul", "mod", "int">>

ExprAt(l) ==
    CASE l = 33 -> old_value_expr
      [] l = 34 -> correct_value_expr
      [] l = 63 -> lifx_value_expr

LoadVar(l) ==
    IF l = 63 THEN "degrees" ELSE "deg"

FactorVar(l) ==
    IF l = 33 THEN "original_factor" ELSE "factor_65536"

Target(l) ==
    CASE l = 33 -> "old_value"
      [] l = 34 -> "correct_value"
      [] l = 63 -> "lifx_value"

ApplyOp(op, l, st) ==
    CASE op = "load" -> <<PyInt(locals[LoadVar(l)])>>
      [] op = "mul"  -> <<PyMul(st[1], locals[FactorVar(l)])>>
      [] op = "mod"  -> <<PyMod(st[1], HueModulus)>>
      [] op = "int"  -> <<PyTrunc(st[1])>>

\* ------------------------------------------------------------------------
\* Actions: one per kind of statement
\* ------------------------------------------------------------------------

\* the process has started and the module body has reached line 67
Init ==
    /\ pc = 67
    /\ status = "running"
    /\ locals = <<>>
    /\ iter = NoIter
    /\ stack = <<>>
    /\ done = <<>>
    /\ out = <<>>
    /\ history = <<>>

\* line 67: main() is called with a fresh, empty frame
CallMain ==
    /\ status = "running"
    /\ pc = 67
    /\ pc' = Program[1]
    /\ locals' = <<>>
    /\ UNCHANGED <<status, iter, stack, done, out, history>>

\* print(...) with fixed text or with the factors
PrintLine ==
    /\ status = "running"
    /\ pc \in PrintLines
    /\ Guarded(/\ out' = Append(out, Text(pc))
               /\ pc' = Fall(pc)
               /\ UNCHANGED <<status, locals, iter, stack, done, history>>)

\* lines 13, 16, 17, 25, 51
Assign ==
    /\ status = "running"
    /\ pc \in AssignLines
    /\ Guarded(/\ locals' = Bind(AssignedName(pc), AssignedValue(pc))
               /\ pc' = Fall(pc)
               /\ UNCHANGED <<status, iter, stack, done, out, history>>)

\* line 32: for deg in test_degrees
ForDegrees ==
    /\ status = "running"
    /\ pc = 32
    /\ Guarded(LET it == IF iter = NoIter
                         THEN [items |-> locals["test_degrees"], pos |-> 0]
                         ELSE iter
               IN  /\ IF it.pos < Len(it.items)
                      THEN /\ locals' = Bind("deg", it.items[it.pos + 1])
                           /\ iter' = [it EXCEPT !.pos = @ + 1]
                           /\ pc' = 33
                      ELSE /\ iter' = NoIter
                           /\ pc' = 39
                           /\ UNCHANGED locals
                   /\ UNCHANGED <<status, stack, done, out, history>>)

\* lines 33, 34, 63: one operation of the expression on the right-hand side
Eval ==
    /\ status = "running"
    /\ pc \in ExprLines
    /\ Len(done) < Len(ExprAt(pc))
    /\ Guarded(LET op == ExprAt(pc)[Len(done) + 1]
               IN  /\ stack' = ApplyOp(op, pc, stack)
                   /\ done' = Append(done, op)
                   /\ UNCHANGED <<pc, status, locals, iter, out, history>>)

\* lines 33, 34, 63: the value is bound to the name on the left-hand side
Store ==
    /\ status = "running"
    /\ pc \in ExprLines
    /\ Len(done) = Len(ExprAt(pc))
    /\ locals' = Bind(Target(pc), PyValue(stack[1]))
    /\ stack' = <<>>
    /\ done' = <<>>
    /\ pc' = Fall(pc)
    /\ UNCHANGED <<status, iter, out, history>>

\* line 35: diff = correct_value - old_value
Diff ==
    /\ status = "running"
    /\ pc = 35
    /\ Guarded(/\ locals' = Bind("diff",
                                 locals["correct_value"] - locals["old_value"])
               /\ pc' = Fall(pc)
               /\ UNCHANGED <<status, iter, stack, done, out, history>>)

\* line 37
PrintComparison ==
    /\ status = "running"
    /\ pc = 37
    /\ Guarded(/\ out' = Append(out, ComparisonRow(locals["deg"],
                                                   locals["old_value"],
                                                   locals["correct_value"],
                                                   locals["diff"]))
               /\ pc' = Fall(pc)
               /\ UNCHANGED <<status, locals, iter, stack, done, history>>)

\* line 62: for name, degrees in colors.items()
ForColors ==
    /\ status = "running"
    /\ pc = 62
    /\ Guarded(LET it == IF iter = NoIter
                         THEN [items |-> locals["colors"], pos |-> 0]
                         ELSE iter
               IN  /\ IF it.pos < Len(it.items)
                      THEN /\ locals' = ("name" :> it.items[it.pos + 1].name)
                                        @@ Bind("degrees",
                                                it.items[it.pos + 1].degrees)
                           /\ iter' = [it EXCEPT !.pos = @ + 1]
                           /\ pc' = 63
                      ELSE /\ iter' = NoIter
                           /\ pc' = Eof
                           /\ UNCHANGED locals
                   /\ UNCHANGED <<status, stack, done, out, history>>)

\* line 64
PrintColor ==
    /\ status = "running"
    /\ pc = 64
    /\ Guarded(/\ out' = Append(out, ColorRow(locals["name"],
                                              locals["degrees"],
                                              locals["lifx_value"]))
               /\ pc' = Fall(pc)
               /\ UNCHANGED <<status, locals, iter, stack, done, history>>)

\* main has returned and the module body ends: the interpreter exits with 0
Exit ==
    /\ status = "running"
    /\ pc = Eof
    /\ status' = "exit0"
    /\ UNCHANGED <<pc, locals, iter, stack, done, out, history>>

\* the script is run again: a new process, nothing kept but what was printed
Invoke ==
    /\ status # "running"
    /\ Len(history) + 1 < MaxRuns
    /\ history' = Append(history, [out |-> out, status |-> status])
    /\ pc' = 67
    /\ status' = "running"
    /\ locals' = <<>>
    /\ iter' = NoIter
    /\ stack' = <<>>
    /\ done' = <<>>
    /\ out' = <<>>

Next ==
    \/ CallMain
    \/ PrintLine
    \/ Assign
    \/ ForDegrees
    \/ Eval
    \/ Store
    \/ Diff
    \/ PrintComparison
    \/ ForColors
    \/ PrintColor
    \/ Exit
    \/ Invoke

Spec == Init /\ [][Next]_vars

\* the interpreter runs the next statement whenever there is one
FairSpec == Spec /\ WF_vars(Next)

\* ------------------------------------------------------------------------
\* Reading the printed tables back
\* ------------------------------------------------------------------------

Range(s) == {s[k] : k \in DOMAIN s}

IsNumeral(s, digits) ==
    /\ s # <<>>
    /\ \A k \in DOMAIN s : s[k] \in Range(digits)

RECURSIVE ParseFrom(_, _, _)
ParseFrom(s, digits, acc) ==
    IF s = <<>> THEN acc
    ELSE LET v == (CHOOSE j \in DOMAIN digits : digits[j] = Head(s)) - 1
         IN  ParseFrom(Tail(s), digits, acc * Len(digits) + v)

ParseDec(s) == ParseFrom(s, DecDigits, 0)

ParseHex(s) == ParseFrom(s, HexDigits, 0)

IsSigned(s) ==
    /\ Len(s) >= 2
    /\ s[1] \in {"+", "-"}
    /\ IsNumeral(Tail(s), DecDigits)

ParseSigned(s) ==
    IF s[1] = "-" THEN 0 - ParseDec(Tail(s)) ELSE ParseDec(Tail(s))

\* the fields of a line: its maximal runs of non-space characters
RECURSIVE Split(_, _, _)
Split(s, cur, acc) ==
    IF s = <<>> THEN (IF cur = <<>> THEN acc ELSE Append(acc, cur))
    ELSE IF Head(s) = " "
         THEN Split(Tail(s), <<>>, IF cur = <<>> THEN acc ELSE Append(acc, cur))
         ELSE Split(Tail(s), Append(cur, Head(s)), acc)

Fields(line) == Split(line, <<>>, <<>>)

\* the degree samples and named colors the properties below speak of
DegreeSamples == <<0, 60, 120, 180, 240, 300, 360>>

NamedDegrees == <<0, 39, 60, 120, 180, 240, 275, 350>>

NamedColors ==
    << <<"R", "e", "d">>, <<"O", "r", "a", "n", "g", "e">>,
       <<"Y", "e", "l", "l", "o", "w">>, <<"G", "r", "e", "e", "n">>,
       <<"C", "y", "a", "n">>, <<"B", "l", "u", "e">>,
       <<"P", "u", "r", "p", "l", "e">>, <<"P", "i", "n", "k">> >>

\* floor(d * 65536 / 360) mod 65536 in exact integer arithmetic
ExactHue(d) == ((d * 65536) \div 360) % 65536

\* position in the output of the k-th comparison row / named-color row
RowIndex(k) == Cardinality({l \in PrintLines : l < 32}) + k

ColorIndex(k) == Cardinality(PrintLines) + Len(DegreeSamples) + k

RowPrinted(k) == Len(out) >= RowIndex(k)

ColorPrinted(k) == Len(out) >= ColorIndex(k)

Row(k) == Fields(out[RowIndex(k)])

ColorFields(k) == Fields(out[ColorIndex(k)])

\* degree, old value, correct value, signed difference
WellFormedRow(r) ==
    /\ Len(r) = 4
    /\ IsNumeral(r[1], DecDigits)
    /\ IsNumeral(r[2], DecDigits)
    /\ IsNumeral(r[3], DecDigits)
    /\ IsSigned(r[4])

\* name, degrees with the degree sign, arrow, value, (0xHHHH)
WellFormedColor(r) ==
    /\ Len(r) = 5
    /\ Len(r[2]) >= 2
    /\ r[2][Len(r[2])] = "deg"
    /\ IsNumeral(SubSeq(r[2], 1, Len(r[2]) - 1), DecDigits)
    /\ r[3] = <<"->">>
    /\ IsNumeral(r[4], DecDigits)
    /\ Len(r[5]) >= 5
    /\ SubSeq(r[5], 1, 3) = <<"(", "0", "x">>
    /\ r[5][Len(r[5])] = ")"

HexField(r) == SubSeq(r[5], 4, Len(r[5]) - 1)

\* the expression on line 34 or 63 is about to apply the operation op
About(op) ==
    /\ status = "running"
    /\ pc \in {34, 63}
    /\ Len(done) < Len(ExprAt(pc))
    /\ ExprAt(pc)[Len(done) + 1] = op

\* ------------------------------------------------------------------------
\* Properties of the comparison table
\* ------------------------------------------------------------------------

\* C1: for every degree sample d in {0, 60, 120, 180, 240, 300, 360} the
\* correct_value printed in the row for d is floor(d * 65536 / 360) mod 65536
\* and lies in [0, 65535].
C1_CorrectValueIsExactHue ==
    \A k \in DOMAIN DegreeSamples :
        RowPrinted(k) =>
            /\ WellFormedRow(Row(k))
            /\ ParseDec(Row(k)[1]) = DegreeSamples[k]
            /\ ParseDec(Row(k)[3]) = ExactHue(DegreeSamples[k])
            /\ ParseDec(Row(k)[3]) \in 0..65535

\* all seven rows are out, the last one for 360 degrees
C1_Witness ==
    /\ RowPrinted(Len(DegreeSamples))
    /\ \A k \in DOMAIN DegreeSamples : Row(k)[1] = Dec(DegreeSamples[k])

\* C2: the row for 360 degrees shows the wraparound: old_value 65520,
\* correct_value 0 and the signed difference -65520.
C2_WraparoundAt360 ==
    RowPrinted(7) =>
        /\ Row(7) = <<Dec(360), Dec(65520), Dec(0), <<"-">> \o Dec(65520)>>
        /\ locals["deg"] = 360
           => /\ locals["old_value"] = 65520
              /\ locals["correct_value"] = 0
              /\ locals["diff"] = 0 - 65520

\* the row for 360 has just been printed
C2_Witness ==
    /\ Len(out) = RowIndex(7)
    /\ locals["deg"] = 360
    /\ Row(7)[1] = Dec(360)

\* C6: in a row that does not wrap the difference is correct_value minus
\* old_value with old_value = floor(d * 182); the row for 0 reads 0, 0, +0
\* and the row for 180 reads 32760, 32768, +8.
C6_DifferenceRows ==
    /\ \A k \in 1..6 :
           RowPrinted(k) =>
               /\ WellFormedRow(Row(k))
               /\ ParseDec(Row(k)[2]) = DegreeSamples[k] * 182
               /\ ParseSigned(Row(k)[4])
                    = ParseDec(Row(k)[3]) - ParseDec(Row(k)[2])
    /\ RowPrinted(1) => Row(1) = <<Dec(0), Dec(0), Dec(0), <<"+", "0">>>>
    /\ RowPrinted(4) => Row(4) = <<Dec(180), Dec(32760), Dec(32768), <<"+", "8">>>>

\* the rows for 0 and for 180 are both out
C6_Witness ==
    /\ RowPrinted(4)
    /\ Row(1)[1] = Dec(0)
    /\ Row(4)[1] = Dec(180)

\* ------------------------------------------------------------------------
\* Order of truncation and modulo
\* ------------------------------------------------------------------------

ExprComplete ==
    /\ status = "running"
    /\ pc \in {34, 63}
    /\ Len(done) = Len(ExprAt(pc))

\* C3 as stated: the product is truncated to an integer first and modulo
\* 65536 is applied to that integer, never to the untruncated product.
C3_TruncateBeforeModulo ==
    About("mod") =>
        /\ stack[1].t = "int"
        /\ "int" \in Range(done)

\* C3 as the code has it: modulo 65536 is applied to the untruncated
\* floating-point product, and int() truncates the result of the modulo;
\* nothing is truncated before the modulo.
C3_ModuloBeforeTruncate ==
    /\ About("mod") =>
           /\ stack[1].t = "float"
           /\ "int" \notin Range(done)
    /\ About("int") =>
           /\ stack[1].t = "float"
           /\ "mod" \in Range(done)
    /\ ExprComplete =>
           /\ done = <<"load", "mul", "mod", "int">>
           /\ stack[1].t = "int"

\* int() is about to truncate a modulo result that still has its fraction
C3_Witness ==
    /\ About("int")
    /\ done = <<"load", "mul", "mod">>
    /\ ~IsIntegral(stack[1])

\* C4: for every degree value the program uses, truncating and then taking
\* the modulo gives what the program computes by taking the modulo and then
\* truncating.
C4_OrdersAgree ==
    ExprComplete =>
        LET d == locals[LoadVar(pc)]
            product == FMul(d, locals["factor_65536"])
        IN  /\ d \in Range(DegreeSamples) \cup Range(NamedDegrees)
            /\ stack[1].t = "int"
            /\ stack[1].i = Trunc(product) % 65536

\* the value for 360 degrees, the one product that reaches 65536
C4_Witness ==
    /\ ExprComplete
    /\ pc = 34
    /\ locals["deg"] = 360
    /\ Trunc(FMul(360, locals["factor_65536"])) = 65536
    /\ stack[1].i = 0

\* ------------------------------------------------------------------------
\* Properties of the named-color table
\* ------------------------------------------------------------------------

\* C5: every named-color row shows floor(degrees * 65536 / 360) mod 65536 in
\* decimal and the same value as four upper-case hexadecimal digits; Red is
\* 0 / 0x0000, Blue 43690 / 0xAAAA and Pink 63715 / 0xF8E3.
C5_NamedColorRows ==
    /\ \A k \in DOMAIN NamedColors :
           ColorPrinted(k) =>
               LET r == ColorFields(k)
               IN  /\ WellFormedColor(r)
                   /\ r[1] = NamedColors[k]
                   /\ ParseDec(SubSeq(r[2], 1, Len(r[2]) - 1)) = NamedDegrees[k]
                   /\ ParseDec(r[4]) = ExactHue(NamedDegrees[k])
                   /\ Len(HexField(r)) = 4
                   /\ IsNumeral(HexField(r), HexDigits)
                   /\ ParseHex(HexField(r)) = ParseDec(r[4])
    /\ ColorPrinted(1) =>
           /\ ColorFields(1)[4] = Dec(0)
           /\ HexField(ColorFields(1)) = <<"0", "0", "0", "0">>
    /\ ColorPrinted(6) =>
           /\ ColorFields(6)[4] = Dec(43690)
           /\ HexField(ColorFields(6)) = <<"A", "A", "A", "A">>
    /\ ColorPrinted(8) =>
           /\ ColorFields(8)[4] = Dec(63715)
           /\ HexField(ColorFields(8)) = <<"F", "8", "E", "3">>

\* the eight rows are out, Pink last
C5_Witness ==
    /\ ColorPrinted(8)
    /\ ColorFields(1)[1] = NamedColors[1]
    /\ ColorFields(8)[1] = NamedColors[8]

\* ------------------------------------------------------------------------
\* Shape of a run: order of the output, determinism, termination
\* ------------------------------------------------------------------------

Rule(c) == Repeat(c, 50)

FirstField(line, f) ==
    /\ Fields(line) # <<>>
    /\ Fields(line)[1] = f

\* what the k-th line of the report has to be
LineOk(k) ==
    LET line == out[k]
    IN  CASE k = 1  -> line = <<"LIFX Color Conversion Factor Analysis">>
          [] k = 2  -> line = Rule("=")
          [] k = 3  -> line # <<>> /\ line[1] = "Original magic number: "
          [] k = 4  -> line # <<>> /\ line[1] = "65535 / 360 = "
          [] k = 5  -> line # <<>> /\ line[1] = "65536 / 360 = "
          [] k = 7  -> line = <<"Conversion comparison for various hue values:">>
          [] k = 9  -> /\ FirstField(line, <<"D", "e", "g", "r", "e", "e", "s">>)
                       /\ line[Len(line)] = "Difference"
          [] k \in {8, 10, 26} -> line = Rule("-")
          [] k \in 11..17 -> FirstField(line, Dec(DegreeSamples[k - 10]))
          [] k \in {6, 18, 24} -> line = <<>>
          [] k = 19 -> line = <<"Explanation:">>
          [] k \in 20..23 -> Len(line) = 1 /\ line # out[19]
          [] k = 25 -> line = <<"Named colors in LIFX u16 format:">>
          [] k \in 27..34 -> FirstField(line, NamedColors[k - 26])
          [] OTHER -> FALSE

\* output is only ever added at the end (or starts empty in a new process)
AppendOnly ==
    \/ out' = out
    \/ out' = <<>> /\ status # "running"
    \/ /\ Len(out') = Len(out) + 1
       /\ SubSeq(out', 1, Len(out)) = out

\* C7: the output comes in a fixed order: title block, the factors, a table
\* header and the seven comparison rows for 0, 60, ..., 360, the explanation,
\* a second header and the eight named-color rows Red, ..., Pink; no row
\* comes before its header and nothing follows the last named-color row.
C7_OutputOrder ==
    /\ [](\A k \in 1..Len(out) : LineOk(k))
    /\ [](status = "exit0" => Len(out) = 34)
    /\ [][AppendOnly]_vars

\* a finished run with the whole report out
C7_Witness ==
    /\ status = "exit0"
    /\ Len(out) = 34
    /\ FirstField(out[34], NamedColors[8])

C9_Terminates ==
    /\ (status = "running") ~> (status = "exit0")
    /\ [](status # "exit1")
    /\ [](status = "exit0" =>
              /\ pc = Eof
              /\ iter = NoIter
              /\ Len(out) = Cardinality(PrintLines) + 7 + 8)

\* a run has ended with success status
C9_Witness ==
    /\ status = "exit0"
    /\ RowPrinted(7)
    /\ ColorPrinted(8)

\* the modulo on line 34 changes the value only for 360 degrees, and the
\* modulo on line 63 never changes it
ModuloEffect ==
    About("mod") =>
        /\ pc = 63 => stack' = stack
        /\ pc = 34 => ((stack' # stack) <=> locals["deg"] = 360)

\* C10: old_value = floor(d * 182) is within [0, 65535] for every sample
\* without wrapping; the difference is non-negative and non-decreasing over
\* the samples below 360 (0, +2, +5, +8, +10, +13) and negative only for
\* 360, the one sample whose product reaches 65536 and wraps; for the named
\* colors the modulo changes nothing.
C10_DifferencesAndWrap ==
    /\ [](\A k \in DOMAIN DegreeSamples :
             RowPrinted(k) =>
                 /\ WellFormedRow(Row(k))
                 /\ ParseDec(Row(k)[2]) = DegreeSamples[k] * 182
                 /\ ParseDec(Row(k)[2]) \in 0..65535
                 /\ (ParseSigned(Row(k)[4]) < 0) <=> (DegreeSamples[k] = 360)
                 /\ k \in 2..6 =>
                        ParseSigned(Row(k)[4]) >= ParseSigned(Row(k - 1)[4]))
    /\ [](RowPrinted(6) =>
             [k \in 1..6 |-> ParseSigned(Row(k)[4])] = <<0, 2, 5, 8, 10, 13>>)
    /\ [][ModuloEffect]_vars

\* both tables are out, the row for 360 with its negative difference
C10_Witness ==
    /\ RowPrinted(7)
    /\ ParseSigned(Row(7)[4]) < 0
    /\ ColorPrinted(8)

====
